---- MODULE Spec2Model ----
(***************************************************************************)
(* Model of EnumerateUSBDevices (ToolsLibraryHelper.cpp, lines 74-194).    *)
(*                                                                         *)
(* One call of the exported function is a sequential process; `pc` is the  *)
(* position of the call in the source.  The operating system (SetupDi*,    *)
(* CoTaskMemAlloc, CreateFile) is the environment: the device snapshot is  *)
(* drawn at Init, and every allocation, detail query and device open       *)
(* chooses its outcome nondeterministically at the step that performs it.  *)
(* A structured exception raised inside a __try block runs the enclosing   *)
(* __finally blocks and then leaves the function without returning.        *)
(***************************************************************************)
EXTENDS Integers, Sequences, FiniteSets, TLC

\* ---------------------------------------------------------------- bounds
MaxDevices == 3
MaxIfaces == 2

\* ------------------------------------------------------------- constants
S_OK == 0
E_OUTOFMEMORY == -2147024882
NULL == 0
GUID_NULL == 0
INVALID_HANDLE_VALUE == -1
ERROR_NO_MORE_ITEMS == 259

\* Interface-class identifiers a caller may pass (non-zero GUIDs).
Guids == {1, 2}

\* Win32 last-error codes a failed OS call may leave behind.  A failed
\* SetupDiGetDeviceInterfaceDetailW / CreateFile / SetupDiGetClassDevsW
\* sets a non-zero last-error (5 = ERROR_ACCESS_DENIED, 13 = ERROR_INVALID_DATA).
Win32Errors == {5, 13}

\* Address of the block CoTaskMemAlloc returns when it succeeds.
HeapBlock == 1
\* Handle SetupDiGetClassDevsW returns when it succeeds.
ValidHandle == 1

\* Outcomes of memset(nullptr, 0, cb) with cb > 0: undefined behaviour.  The
\* store through the null pointer raises an access violation; a build that
\* elides the store falls through.
ZeroNullOutcomes == {"fault", "noop"}
\* Outcomes of a store one element past the end of the output array:
\* undefined behaviour.  The store lands in adjacent heap memory, or raises an
\* access violation when the block ends at a guard page.
OobOutcomes == {"silent", "fault"}

\* Every device snapshot: devs[i+1] is the number of interfaces of the
\* requested class that device ordinal i exposes.
RECURSIVE SeqsUpTo(_, _)
SeqsUpTo(S, n) ==
    IF n = 0 THEN {<<>>}
    ELSE LET shorter == SeqsUpTo(S, n - 1)
         IN  shorter \cup {Append(s, x) : s \in {t \in shorter : Len(t) = n - 1}, x \in S}
Snapshots == SeqsUpTo(0..MaxIfaces, MaxDevices)

VARIABLES
    guidInterfaceClass, \* input: the requested class identifier
    devs,               \* the OS device snapshot of the session
    pc,                 \* position of the call
    hDevInfo,           \* session handle (0 before SetupDiGetClassDevsW)
    lastError,          \* the thread's Win32 last-error value
    err,                \* local `err`
    hr,                 \* local `hr`
    cDevices,           \* local `cDevices`
    pResult,            \* local `pResult`: NULL or the array's address
    slots,              \* memory of the output array
    iResult,            \* outer loop index
    iInterface,         \* inner loop index
    pInterfaceDetail,   \* NULL or the live detail buffer
    strings,            \* heap strings made by AllocCopyString, in order
    fault,              \* a structured exception is unwinding
    out,                \* what the caller receives
    destroyCount,       \* calls of SetupDiDestroyDeviceInfoList
    queryAfterDestroy,  \* a SetupDi query was issued on a destroyed session
    events,             \* injected failures that happened: <<kind, dev, iface>>
    dupOk,              \* <<dev, iface>> of every successful AllocCopyString
    oob,                \* indices of array stores outside 0..cDevices-1
    detailAllocs,       \* detail buffers CoTaskMemAlloc handed out
    detailFrees,        \* CoTaskMemFree calls on a detail buffer
    inject,             \* the environment may fail allocations, queries, opens
    order,              \* the session's enumeration order: ordinal i is device order[i+1]
    callNo,             \* 1 in the first call of the caller, 2 in the second
    prev                \* what the first call returned, by content

vars == <<guidInterfaceClass, devs, pc, hDevInfo, lastError, err, hr, cDevices,
          pResult, slots, iResult, iInterface, pInterfaceDetail, strings, fault,
          out, destroyCount, queryAfterDestroy, events, dupOk, oob,
          detailAllocs, detailFrees, inject, order, callNo, prev>>

\* ------------------------------------------------------ pure helpers
\* HRESULT_FROM_WIN32 on signed 32-bit values: x <= 0 is returned as it is,
\* otherwise (x & 0xFFFF) | 0x80070000, which as a signed LONG is
\* (x % 65536) - 2147024896.
HRESULT_FROM_WIN32(x) ==
    IF x <= 0 THEN x
    ELSE (x % 65536) - 2147024896

HError(last) == HRESULT_FROM_WIN32(last)

\* A zero-initialised EnumeratedUSBDevice.
ZeroSlot == [guidInterface |-> GUID_NULL, wszInterfacePath |-> NULL]
\* Indeterminate content of freshly allocated memory (never read before Zero).
UninitSlot == [guidInterface |-> -1, wszInterfacePath |-> -1]

\* Success/failure outcomes of an allocation, a detail query, a device open
\* or the session open: both while failures are injected, success otherwise.
Outcomes == IF inject THEN BOOLEAN ELSE {TRUE}

\* Enumeration orders of a session over n devices.  Devices are numbered by
\* the order of the caller's first session; a later session over the same
\* devices may enumerate them in any order.
Identity(n) == [i \in 1..n |-> i]
EnumOrders(n) ==
    {f \in [1..n -> 1..n] : \A a, b \in 1..n : f[a] = f[b] => a = b}
SessionOrders(call, n) == IF call = 1 THEN {Identity(n)} ELSE EnumOrders(n)

\* SetupDiEnumDeviceInfo(hDevInfo, i, ...) on the snapshot.
EnumDeviceInfo(i) == i < Len(devs)
\* SetupDiEnumDeviceInterfaces(hDevInfo, device i, class, j, ...).
EnumDeviceInterfaces(i, j) == i < Len(devs) /\ j < devs[order[i + 1]]

\* Ghost: a SetupDi query issued now hits a destroyed session.
Query == queryAfterDestroy \/ destroyCount > 0

\* --------------------------------------------- decisions of the code
\* Line 193: `return !hr`.
SuccessInverted(h) == h # S_OK
Success(h) == h = S_OK

\* Line 104: the outer loop runs while `!hr`.
ContinueFillAlways(h) == TRUE
ContinueFill(h) == h = S_OK

\* Lines 101 and 174-177: the array allocation failed only if devices exist.
HrAfterArrayAllocAnyNull(h, p, c) == IF p = NULL THEN E_OUTOFMEMORY ELSE h
HrAfterArrayAlloc(h, p, c) == IF p = NULL /\ c # 0 THEN E_OUTOFMEMORY ELSE h

\* Lines 135-147: a failed CreateFile records HError(); success leaves hr alone.
HrAfterDeviceOpenReset(h, opened, last) == IF opened THEN S_OK ELSE HError(last)
HrAfterDeviceOpen(h, opened, last) == IF opened THEN h ELSE HError(last)

\* Lines 166-167: "no interface at ordinal j" ends the inner loop, hr untouched.
HrAfterNoInterfaceStrict(h, j, last) == IF j = 0 THEN HError(last) ELSE h
HrAfterNoInterface(h, j, last) == h

\* Line 104: `int iResult = 0` starts the fill loop, whatever the variable held.
FillStartStale(i) == i
FillStart(i) == 0

\* pInterfaceDetail->DevicePath of interface j of the device at ordinal i: the
\* path names the device itself, not its position in the session.
DevicePath(i, j) == <<order[i + 1] - 1, j>>

\* Lines 188-189: `if (nullptr == pResult) cDevices = 0`.
ReportedCountUnchecked(p, c) == c
ReportedCount(p, c) == IF p = NULL THEN 0 ELSE c

\* Lines 179-183: the __finally block runs on normal exit and on unwind.
CleanupOnlyOnNormalExit(flt) == ~flt
CleanupRuns(flt) == TRUE

\* Lines 158-161: the inner __finally frees the detail buffer on every outcome.
DetailFreedOnSuccessOnly(h) == h = S_OK
DetailFreed(h) == TRUE

\* Line 107: pResult[iResult].guidInterface = guidInterfaceClass.  A store at
\* an index outside the allocation leaves the array itself unchanged.
StoreGuidFirstSlot(s, i, g) ==
    IF Len(s) > 0 THEN [s EXCEPT ![1].guidInterface = g] ELSE s
StoreGuidOmitted(s, i, g) == s
StoreGuid(s, i, g) ==
    IF i < Len(s) THEN [s EXCEPT ![i + 1].guidInterface = g] ELSE s

\* Line 131: pResult[iResult].wszInterfacePath = AllocCopyString(...).
StorePathKeepFirst(s, i, p) ==
    IF i < Len(s) /\ s[i + 1].wszInterfacePath = NULL
    THEN [s EXCEPT ![i + 1].wszInterfacePath = p] ELSE s
StorePath(s, i, p) ==
    IF i < Len(s) THEN [s EXCEPT ![i + 1].wszInterfacePath = p] ELSE s

\* ------------------------------------------------------------- Init
InitCall ==
    /\ guidInterfaceClass \in Guids
    /\ devs \in Snapshots
    /\ pc = "start"
    /\ hDevInfo = 0
    /\ lastError = 0
    /\ err = 0
    /\ hr = S_OK
    /\ cDevices = 0
    /\ pResult = NULL
    /\ slots = <<>>
    /\ iResult = 0
    /\ iInterface = 0
    /\ pInterfaceDetail = NULL
    /\ strings = <<>>
    /\ fault = FALSE
    /\ out = [written |-> FALSE, cDevices |-> 0, pResult |-> NULL,
              slots |-> <<>>, success |-> FALSE]
    /\ destroyCount = 0
    /\ queryAfterDestroy = FALSE
    /\ events = {}
    /\ dupOk = {}
    /\ oob = {}
    /\ detailAllocs = 0
    /\ detailFrees = 0
    /\ order = Identity(Len(devs))
    /\ callNo = 1
    /\ prev = [taken |-> FALSE, success |-> FALSE, cDevices |-> 0, content |-> <<>>]

\* A call in an environment that may fail any allocation, query or open.
Init == InitCall /\ inject = TRUE
\* Two calls in an environment that injects no failure.
InitNoFailures == InitCall /\ inject = FALSE

\* ---------------------------------------------------------- actions
\* Lines 76-82, 185-186: open the session.
GetClassDevs ==
    /\ pc = "start"
    /\ \E ok \in Outcomes, e \in Win32Errors, o \in SessionOrders(callNo, Len(devs)) :
         IF ok
         THEN /\ hDevInfo' = ValidHandle
              /\ order' = o
              /\ pc' = "count"
              /\ UNCHANGED <<lastError, err, events>>
         ELSE /\ hDevInfo' = INVALID_HANDLE_VALUE
              /\ UNCHANGED order
              /\ lastError' = e
              /\ err' = e
              /\ events' = events \cup {<<"open", -1, -1>>}
              /\ pc' = "epilogue"
    /\ UNCHANGED <<guidInterfaceClass, devs, inject, callNo, prev, detailAllocs, detailFrees, hr, cDevices, pResult, slots, iResult,
                   iInterface, pInterfaceDetail, strings, fault, out, destroyCount,
                   queryAfterDestroy, dupOk, oob>>

\* Lines 87-95: one iteration of the count pass.
CountDevices ==
    /\ pc = "count"
    /\ queryAfterDestroy' = Query
    /\ IF EnumDeviceInfo(cDevices)
       THEN /\ cDevices' = cDevices + 1
            /\ UNCHANGED <<pc, lastError>>
       ELSE /\ lastError' = ERROR_NO_MORE_ITEMS
            /\ pc' = "alloc"
            /\ UNCHANGED cDevices
    /\ UNCHANGED <<guidInterfaceClass, devs, inject, callNo, prev, order, detailAllocs, detailFrees, hDevInfo, err, hr, pResult, slots,
                   iResult, iInterface, pInterfaceDetail, strings, fault, out,
                   destroyCount, events, dupOk, oob>>

\* Lines 98-99: allocate cDevices * sizeof(EnumeratedUSBDevice) bytes.
AllocResult ==
    /\ pc = "alloc"
    /\ \E ok \in Outcomes :
         IF ok
         THEN /\ pResult' = HeapBlock
              /\ slots' = [i \in 1..cDevices |-> UninitSlot]
              /\ UNCHANGED events
         ELSE /\ pResult' = NULL
              /\ slots' = <<>>
              /\ events' = events \cup {<<"arrayAlloc", -1, -1>>}
    /\ pc' = "zero"
    /\ UNCHANGED <<guidInterfaceClass, devs, inject, callNo, prev, order, detailAllocs, detailFrees, hDevInfo, lastError, err, hr, cDevices,
                   iResult, iInterface, pInterfaceDetail, strings, fault, out,
                   destroyCount, queryAfterDestroy, dupOk, oob>>

\* Lines 100-101, 174-177: Zero(pResult, cbResult), then the null test.
\* Zero runs before the test, so a failed allocation of cbResult > 0 bytes is
\* memset(nullptr, 0, cbResult).
ZeroResult ==
    /\ pc = "zero"
    /\ \E z \in ZeroNullOutcomes :
         IF pResult = NULL /\ cDevices > 0 /\ z = "fault"
         THEN /\ fault' = TRUE
              /\ pc' = "finally"
              /\ UNCHANGED <<slots, hr, iResult>>
         ELSE /\ slots' = [i \in 1..Len(slots) |-> ZeroSlot]
              /\ hr' = HrAfterArrayAlloc(hr, pResult, cDevices)
              /\ iResult' = FillStart(iResult)
              /\ pc' = IF pResult # NULL THEN "fillTest" ELSE "finally"
              /\ UNCHANGED fault
    /\ UNCHANGED <<guidInterfaceClass, devs, inject, callNo, prev, order, detailAllocs, detailFrees, hDevInfo, lastError, err, cDevices,
                   pResult, iInterface, pInterfaceDetail, strings, out,
                   destroyCount, queryAfterDestroy, events, dupOk, oob>>

\* Line 104: the loop condition `!hr`.
FillTest ==
    /\ pc = "fillTest"
    /\ pc' = IF ContinueFill(hr) THEN "fillGuid" ELSE "finally"
    /\ UNCHANGED <<guidInterfaceClass, devs, inject, callNo, prev, order, detailAllocs, detailFrees, hDevInfo, lastError, err, hr, cDevices,
                   pResult, slots, iResult, iInterface, pInterfaceDetail, strings,
                   fault, out, destroyCount, queryAfterDestroy, events, dupOk, oob>>

\* Line 107: the class identifier is stored before the device at iResult is
\* looked up, so the last iteration stores at index cDevices.
FillGuid ==
    /\ pc = "fillGuid"
    /\ slots' = StoreGuid(slots, iResult, guidInterfaceClass)
    /\ \E o \in OobOutcomes :
         IF iResult >= cDevices /\ o = "fault"
         THEN /\ fault' = TRUE
              /\ pc' = "finally"
         ELSE /\ pc' = "fillDevice"
              /\ UNCHANGED fault
    /\ oob' = IF iResult >= cDevices THEN oob \cup {iResult} ELSE oob
    /\ UNCHANGED <<guidInterfaceClass, devs, inject, callNo, prev, order, detailAllocs, detailFrees, hDevInfo, lastError, err, hr, cDevices,
                   pResult, iResult, iInterface, pInterfaceDetail, strings, out,
                   destroyCount, queryAfterDestroy, events, dupOk>>

\* Lines 110-111, 114, 170-171: look up device iResult.
FillDevice ==
    /\ pc = "fillDevice"
    /\ queryAfterDestroy' = Query
    /\ IF EnumDeviceInfo(iResult)
       THEN /\ iInterface' = 0
            /\ pc' = "iface"
            /\ UNCHANGED lastError
       ELSE /\ lastError' = ERROR_NO_MORE_ITEMS
            /\ pc' = "finally"
            /\ UNCHANGED iInterface
    /\ UNCHANGED <<guidInterfaceClass, devs, inject, callNo, prev, order, detailAllocs, detailFrees, hDevInfo, err, hr, cDevices, pResult,
                   slots, iResult, pInterfaceDetail, strings, fault, out,
                   destroyCount, events, dupOk, oob>>

\* Lines 115-117, 166-168, and the outer loop's iResult++.
EnumInterface ==
    /\ pc = "iface"
    /\ queryAfterDestroy' = Query
    /\ IF EnumDeviceInterfaces(iResult, iInterface)
       THEN /\ pc' = "detailAlloc"
            /\ UNCHANGED <<lastError, hr, iResult>>
       ELSE /\ lastError' = ERROR_NO_MORE_ITEMS
            /\ hr' = HrAfterNoInterface(hr, iInterface, ERROR_NO_MORE_ITEMS)
            /\ iResult' = iResult + 1
            /\ pc' = "fillTest"
    /\ UNCHANGED <<guidInterfaceClass, devs, inject, callNo, prev, order, detailAllocs, detailFrees, hDevInfo, err, cDevices, pResult, slots,
                   iInterface, pInterfaceDetail, strings, fault, out, destroyCount,
                   events, dupOk, oob>>

\* Lines 120-123, 163-164: size query, then the detail buffer allocation.
AllocDetail ==
    /\ pc = "detailAlloc"
    /\ queryAfterDestroy' = Query
    /\ \E ok \in Outcomes :
         IF ok
         THEN /\ pInterfaceDetail' = HeapBlock
              /\ detailAllocs' = detailAllocs + 1
              /\ pc' = "detailQuery"
              /\ UNCHANGED <<hr, iInterface, events>>
         ELSE /\ pInterfaceDetail' = NULL
              /\ hr' = E_OUTOFMEMORY
              /\ events' = events \cup {<<"detailAlloc", iResult, iInterface>>}
              /\ iInterface' = iInterface + 1
              /\ pc' = "iface"
              /\ UNCHANGED detailAllocs
    /\ UNCHANGED <<guidInterfaceClass, devs, inject, callNo, prev, order, detailFrees, hDevInfo, lastError, err, cDevices,
                   pResult, slots, iResult, strings, fault, out, destroyCount,
                   dupOk, oob>>

\* Lines 127-129, 155-156: the detail query that fills the buffer.
QueryDetail ==
    /\ pc = "detailQuery"
    /\ queryAfterDestroy' = Query
    /\ \E ok \in Outcomes, e \in Win32Errors :
         IF ok
         THEN /\ pc' = "dup"
              /\ UNCHANGED <<lastError, hr, events>>
         ELSE /\ lastError' = e
              /\ hr' = HError(e)
              /\ events' = events \cup {<<"detailQuery", iResult, iInterface>>}
              /\ pc' = "detailFree"
    /\ UNCHANGED <<guidInterfaceClass, devs, inject, callNo, prev, order, detailAllocs, detailFrees, hDevInfo, err, cDevices, pResult, slots,
                   iResult, iInterface, pInterfaceDetail, strings, fault, out,
                   destroyCount, dupOk, oob>>

\* Lines 30-37, 131-132, 149-150: duplicate the path into the slot.
CopyPath ==
    /\ pc = "dup"
    /\ \E ok \in Outcomes :
         IF ok
         THEN /\ strings' = Append(strings, DevicePath(iResult, iInterface))
              /\ slots' = StorePath(slots, iResult, Len(strings) + 1)
              /\ dupOk' = dupOk \cup {<<iResult, iInterface>>}
              /\ pc' = "open"
              /\ UNCHANGED <<hr, events>>
         ELSE /\ slots' = StorePath(slots, iResult, NULL)
              /\ hr' = E_OUTOFMEMORY
              /\ events' = events \cup {<<"dup", iResult, iInterface>>}
              /\ pc' = "detailFree"
              /\ UNCHANGED <<strings, dupOk>>
    /\ oob' = IF iResult >= cDevices THEN oob \cup {iResult} ELSE oob
    /\ UNCHANGED <<guidInterfaceClass, devs, inject, callNo, prev, order, detailAllocs, detailFrees, hDevInfo, lastError, err, cDevices,
                   pResult, iResult, iInterface, pInterfaceDetail, fault, out,
                   destroyCount, queryAfterDestroy>>

\* Lines 134-147: open the device, close the handle at once.
OpenDevice ==
    /\ pc = "open"
    /\ \E ok \in Outcomes, e \in Win32Errors :
         /\ hr' = HrAfterDeviceOpen(hr, ok, e)
         /\ IF ok
            THEN UNCHANGED <<lastError, events>>
            ELSE /\ lastError' = e
                 /\ events' = events \cup {<<"deviceOpen", iResult, iInterface>>}
    /\ pc' = "detailFree"
    /\ UNCHANGED <<guidInterfaceClass, devs, inject, callNo, prev, order, detailAllocs, detailFrees, hDevInfo, err, cDevices, pResult, slots,
                   iResult, iInterface, pInterfaceDetail, strings, fault, out,
                   destroyCount, queryAfterDestroy, dupOk, oob>>

\* Lines 158-161 and the inner loop's iInterface++.
FreeDetail ==
    /\ pc = "detailFree"
    /\ pInterfaceDetail' = IF DetailFreed(hr) THEN NULL ELSE pInterfaceDetail
    /\ detailFrees' = IF DetailFreed(hr) THEN detailFrees + 1 ELSE detailFrees
    /\ iInterface' = iInterface + 1
    /\ pc' = "iface"
    /\ UNCHANGED <<guidInterfaceClass, devs, inject, callNo, prev, order, detailAllocs, hDevInfo, lastError, err, hr, cDevices,
                   pResult, slots, iResult, strings, fault, out, destroyCount,
                   queryAfterDestroy, events, dupOk, oob>>

\* Lines 179-183: SetupDiDestroyDeviceInfoList in the outer __finally.  An
\* unwinding exception then leaves the function.
Finally ==
    /\ pc = "finally"
    /\ destroyCount' = IF CleanupRuns(fault) THEN destroyCount + 1 ELSE destroyCount
    /\ pc' = IF fault THEN "faulted" ELSE "epilogue"
    /\ UNCHANGED <<guidInterfaceClass, devs, inject, callNo, prev, order, detailAllocs, detailFrees, hDevInfo, lastError, err, hr, cDevices,
                   pResult, slots, iResult, iInterface, pInterfaceDetail, strings,
                   fault, out, queryAfterDestroy, events, dupOk, oob>>

\* Lines 188-193: write the outputs and return.
Return ==
    /\ pc = "epilogue"
    /\ cDevices' = ReportedCount(pResult, cDevices)
    /\ out' = [written |-> TRUE,
               cDevices |-> ReportedCount(pResult, cDevices),
               pResult |-> pResult,
               slots |-> slots,
               success |-> Success(hr)]
    /\ pc' = "returned"
    /\ UNCHANGED <<guidInterfaceClass, devs, inject, callNo, prev, order, detailAllocs, detailFrees, hDevInfo, lastError, err, hr, pResult,
                   slots, iResult, iInterface, pInterfaceDetail, strings, fault,
                   destroyCount, queryAfterDestroy, events, dupOk, oob>>

Next ==
    \/ GetClassDevs
    \/ CountDevices
    \/ AllocResult
    \/ ZeroResult
    \/ FillTest
    \/ FillGuid
    \/ FillDevice
    \/ EnumInterface
    \/ AllocDetail
    \/ QueryDetail
    \/ CopyPath
    \/ OpenDevice
    \/ FreeDetail
    \/ Finally
    \/ Return

Spec == Init /\ [][Next]_vars

\* The content of the returned array: the class identifier and the characters
\* of the path string of every slot (<<>> for a null path).
PathContent(p) == IF p = NULL THEN <<>> ELSE strings[p]
OutContent ==
    [i \in 1..Len(out.slots) |->
        [guidInterface |-> out.slots[i].guidInterface,
         path |-> PathContent(out.slots[i].wszInterfacePath)]]

\* Lines 74-80: the caller calls EnumerateUSBDevices again with the same class
\* identifier.  The locals start afresh (pResult = nullptr, hr = S_OK,
\* cDevices = 0, err = 0); the loop variables are set by their loops; the
\* heap and the thread's last-error are what the first call left.
CallAgain ==
    /\ pc = "returned"
    /\ callNo = 1
    /\ callNo' = 2
    /\ prev' = [taken |-> TRUE, success |-> out.success,
                cDevices |-> out.cDevices, content |-> OutContent]
    /\ pc' = "start"
    /\ hDevInfo' = 0
    /\ err' = 0
    /\ hr' = S_OK
    /\ cDevices' = 0
    /\ pResult' = NULL
    /\ slots' = <<>>
    /\ pInterfaceDetail' = NULL
    /\ fault' = FALSE
    /\ out' = [written |-> FALSE, cDevices |-> 0, pResult |-> NULL,
               slots |-> <<>>, success |-> FALSE]
    /\ destroyCount' = 0
    /\ queryAfterDestroy' = FALSE
    /\ events' = {}
    /\ dupOk' = {}
    /\ oob' = {}
    /\ detailAllocs' = 0
    /\ detailFrees' = 0
    /\ UNCHANGED <<guidInterfaceClass, devs, inject, order, lastError, iResult,
                   iInterface, strings>>

NextTwice ==
    \/ Next
    \/ CallAgain

SpecTwice == InitNoFailures /\ [][NextTwice]_vars

\* ------------------------------------------------------ vocabulary
Terminal == pc \in {"returned", "faulted"}
Returned == pc = "returned"
SessionOpened == hDevInfo = ValidHandle
\* n: the number of devices the count pass finds.
NDev == Len(devs)
Kinds == {e[1] : e \in events}
\* CoTaskMemAlloc of the output array returned null although n > 0.
ArrayAllocFailed == "arrayAlloc" \in Kinds /\ NDev > 0
AllocationFailed == ArrayAllocFailed \/ "detailAlloc" \in Kinds \/ "dup" \in Kinds
DetailQueryFailed == "detailQuery" \in Kinds
DeviceOpenFailed == "deviceOpen" \in Kinds
\* An error recorded inside the fill pass.
FillError == {"detailQuery", "detailAlloc", "dup"} \cap Kinds # {}
\* The detail query of some interface of device k failed.
DetailQueryFailedOn(k) == \E e \in events : e[1] = "detailQuery" /\ e[2] = k
AllOneInterface == \A i \in 1..NDev : devs[i] = 1
OutSlot(i) == out.slots[i + 1]

\* ---------------------------------------------------------------- C1
\* C1: on every path and under every combination of injected failures the
\* session is destroyed exactly once when SetupDiGetClassDevsW returned a
\* valid handle and never when it returned INVALID_HANDLE_VALUE, and no
\* SetupDi query is issued on the session after it was destroyed.
C1_SessionDestroyedExactlyOnce ==
    /\ destroyCount <= 1
    /\ ~queryAfterDestroy
    /\ (hDevInfo # ValidHandle => destroyCount = 0)
    /\ (Terminal => destroyCount = IF SessionOpened THEN 1 ELSE 0)

\* The session was destroyed while a structured exception was unwinding.
C1_Witness == pc = "faulted" /\ SessionOpened /\ destroyCount = 1

\* ---------------------------------------------------------------- C2
\* C2 (as claimed): when the session cannot be opened the call reports zero
\* devices, a null array and success = false.
C2_OpenFailureReportsFailure ==
    (Returned /\ hDevInfo = INVALID_HANDLE_VALUE)
        => (out.cDevices = 0 /\ out.pResult = NULL /\ out.success = FALSE)

\* ---------------------------------------------------------------- C3
\* C3 (as claimed): when the count pass found n > 0 devices and the array
\* allocation fails, the call returns to its caller with success = false,
\* a count of 0 and a null array.
C3_ArrayAllocFailureReturnsFailure ==
    (Terminal /\ ArrayAllocFailed)
        => (Returned /\ out.success = FALSE /\ out.cDevices = 0 /\ out.pResult = NULL)

\* ---------------------------------------------------------------- C4
\* C4 (as claimed): n devices with exactly one interface each and no
\* allocation or detail-query failure give success = true, count n, and in
\* every slot the requested class identifier and a non-null path.
C4_AllSlotsFilledWithoutAllocOrQueryFailure ==
    (Returned /\ SessionOpened /\ AllOneInterface
        /\ ~AllocationFailed /\ ~DetailQueryFailed)
        => /\ out.success = TRUE
           /\ out.cDevices = NDev
           /\ \A i \in 0..(NDev - 1) :
                /\ OutSlot(i).guidInterface = guidInterfaceClass
                /\ OutSlot(i).wszInterfacePath # NULL

\* C4 (amended): the same, provided also that no device open (CreateFile)
\* failed.
C4_AllSlotsFilledWithoutAnyFailure ==
    (Returned /\ SessionOpened /\ AllOneInterface
        /\ ~AllocationFailed /\ ~DetailQueryFailed /\ ~DeviceOpenFailed)
        => /\ out.success = TRUE
           /\ out.cDevices = NDev
           /\ Len(out.slots) = NDev
           /\ \A i \in 0..(NDev - 1) :
                /\ OutSlot(i).guidInterface = guidInterfaceClass
                /\ OutSlot(i).wszInterfacePath # NULL

\* Two devices with one interface each were enumerated without any failure.
C4_Witness ==
    /\ Returned /\ SessionOpened /\ AllOneInterface /\ NDev >= 2
    /\ events = {}
    /\ out.success = TRUE
    /\ out.cDevices = NDev

\* ---------------------------------------------------------------- C5
\* C5 (as claimed): when path resolution fails on device k < n the call
\* returns success = false, slots 0..k-1 hold the requested class and a
\* non-null path, slots k..n-1 hold a null path, and the session is closed.
C5_SlotsAfterResolutionFailure ==
    \A k \in 0..(NDev - 1) :
        (Returned /\ DetailQueryFailedOn(k))
            => /\ out.success = FALSE
               /\ destroyCount = 1
               /\ \A i \in 0..(k - 1) :
                    /\ OutSlot(i).guidInterface = guidInterfaceClass
                    /\ OutSlot(i).wszInterfacePath # NULL
               /\ \A i \in k..(NDev - 1) : OutSlot(i).wszInterfacePath = NULL

\* C5 (amended): when a detail query fails on device k < n the call returns
\* success = false with the session closed; slots 0..k-1 hold the requested
\* class, and a non-null path where the device has at least one interface;
\* slot k holds a non-null path only if some interface of device k was
\* duplicated successfully; slots k+1..n-1 hold a null path.
C5_SlotsAfterDetailQueryFailure ==
    \A k \in 0..(NDev - 1) :
        (Returned /\ DetailQueryFailedOn(k))
            => /\ out.success = FALSE
               /\ destroyCount = 1
               /\ out.cDevices = NDev
               /\ \A i \in 0..(k - 1) :
                    /\ OutSlot(i).guidInterface = guidInterfaceClass
                    /\ (devs[i + 1] >= 1 => OutSlot(i).wszInterfacePath # NULL)
               /\ (OutSlot(k).wszInterfacePath # NULL
                     => \E d \in dupOk : d[1] = k)
               /\ \A i \in (k + 1)..(NDev - 1) : OutSlot(i).wszInterfacePath = NULL

\* The detail query failed on device 1 of three; device 0 was resolved and
\* device 2, which has an interface, was never visited.
C5_Witness ==
    /\ Returned /\ NDev = 3 /\ DetailQueryFailedOn(1)
    /\ devs[3] >= 1
    /\ OutSlot(0).wszInterfacePath # NULL
    /\ OutSlot(2).wszInterfacePath = NULL
    /\ out.success = FALSE

\* ---------------------------------------------------------------- C6
\* C6 (as claimed): success = false is returned only after an allocation
\* failure, a failed detail query or a failed session open.
C6_FailureOnlyFromThreeCauses ==
    (Returned /\ out.success = FALSE)
        => (AllocationFailed \/ DetailQueryFailed \/ ~SessionOpened)

\* C6 (amended): success = false is returned only after an allocation
\* failure, a failed detail query, a failed session open or a failed device
\* open (CreateFile).
C6_FailureOnlyFromFourCauses ==
    (Returned /\ out.success = FALSE)
        => (AllocationFailed \/ DetailQueryFailed \/ ~SessionOpened \/ DeviceOpenFailed)

\* A call whose only failure was a device open returned success = false.
C6_Witness ==
    Returned /\ out.success = FALSE /\ Kinds = {"deviceOpen"}

\* ---------------------------------------------------------------- C7
\* C7: a class identifier that matches zero devices gives success = true and
\* a count of 0, whether the zero-byte allocation returned null or not.
C7_ZeroDevicesSucceed ==
    (Returned /\ SessionOpened /\ NDev = 0)
        => (out.success = TRUE /\ out.cDevices = 0)

\* Zero devices, and the zero-byte allocation returned a non-null pointer.
C7_Witness ==
    Returned /\ SessionOpened /\ NDev = 0 /\ out.pResult # NULL /\ out.success = TRUE

\* ---------------------------------------------------------------- C8
\* C8 (as claimed): every call ends by returning normally with both outputs
\* written and the session closed; no fault reaches the caller.
C8_AlwaysReturnsNormally ==
    Terminal
        => /\ Returned
           /\ out.written
           /\ (SessionOpened => destroyCount = 1)

\* ---------------------------------------------------------------- C9
\* C9: in a returned array a device with zero matching interfaces has a slot
\* (it is counted), the slot's path is null, and without any injected failure
\* the call still reports success.
C9_DeviceWithoutInterfaceKeepsEmptySlot ==
    /\ (Returned /\ out.pResult # NULL)
          => /\ out.cDevices = NDev
             /\ Len(out.slots) = NDev
             /\ \A i \in 0..(NDev - 1) :
                  devs[i + 1] = 0 => OutSlot(i).wszInterfacePath = NULL
    /\ (Returned /\ SessionOpened /\ events = {}) => out.success = TRUE

\* A device without interfaces sits between two resolved devices and the
\* call reports success.
C9_Witness ==
    /\ Returned /\ out.success = TRUE /\ out.cDevices = NDev
    /\ \E i \in 0..(NDev - 1) :
         /\ devs[i + 1] = 0
         /\ OutSlot(i).wszInterfacePath = NULL
    /\ \E i \in 0..(NDev - 1) : OutSlot(i).wszInterfacePath # NULL

\* --------------------------------------------------------------- C10
\* C10: once an error was recorded in the fill pass, hr stays a failure code
\* through every later step and the returned success flag is false.
C10_RecordedErrorIsNeverReset ==
    FillError => (hr # S_OK /\ (Returned => out.success = FALSE))

\* An interface failed, a later interface of the same device was resolved
\* and opened, and the call still returned success = false.
C10_Witness ==
    /\ Returned /\ out.success = FALSE
    /\ \E e \in events, d \in dupOk :
         /\ e[1] \in {"detailQuery", "detailAlloc", "dup"}
         /\ d[1] = e[2] /\ d[2] > e[3]
         /\ <<"deviceOpen", d[1], d[2]>> \notin events

\* --------------------------------------------------------------- C12
\* C12 (as claimed): every store of the fill pass into the output array
\* targets an index i with 0 <= i < n; nothing is stored when n = 0 and
\* nothing is ever stored at index n.
C12_AllStoresInBounds == oob = {}

\* --------------------------------------------------------------- C13
\* C13 (as claimed): after the first error recorded in the fill pass no
\* further interface is processed (no size query, allocation, detail query,
\* duplication or device open); only the buffer free and the session close
\* remain.
C13_NoWorkAfterFirstError ==
    FillError => pc \notin {"detailAlloc", "detailQuery", "dup", "open"}

\* --------------------------------------------------------------- C14
\* C14 (as claimed): at return every string AllocCopyString allocated is
\* referenced by exactly one slot of the returned array (the code frees no
\* path string), also when a device exposes several matching interfaces.
C14_EveryPathStringOwnedByOneSlot ==
    Returned =>
        \A p \in 1..Len(strings) :
            Cardinality({i \in 1..Len(out.slots) :
                            out.slots[i].wszInterfacePath = p}) = 1

\* --------------------------------------------------------------- C15
\* C15: every detail buffer is freed exactly once and before the next
\* interface ordinal is queried, whatever the outcome of the iteration; at
\* most one detail buffer is live at any time and none at return.
C15_DetailBufferFreedOncePerIteration ==
    /\ detailAllocs - detailFrees = (IF pInterfaceDetail # NULL THEN 1 ELSE 0)
    /\ (pInterfaceDetail # NULL
          => pc \in {"detailQuery", "dup", "open", "detailFree"})
    /\ (pc \in {"iface", "detailAlloc"} => detailFrees = detailAllocs)
    /\ (Terminal => detailFrees = detailAllocs)

\* Two interfaces ended in two different failures and both buffers were freed.
C15_Witness ==
    /\ Returned
    /\ Cardinality(Kinds \cap {"detailQuery", "dup", "deviceOpen"}) >= 2
    /\ detailAllocs >= 2
    /\ detailFrees = detailAllocs
    /\ pInterfaceDetail = NULL

\* --------------------------------------------------------------- C16
\* C16: when the returned pointer is non-null the reported count is n, the
\* number of devices of the count pass, also after an aborted fill pass; the
\* reported count is 0 exactly when the pointer is null or n = 0.
C16_ReportedCountIsCountPassResult ==
    Returned =>
        /\ (out.pResult # NULL => out.cDevices = NDev)
        /\ (out.cDevices = 0 <=> (out.pResult = NULL \/ NDev = 0))

\* The fill pass was aborted on the first of several devices and the count
\* is still n.
C16_Witness ==
    /\ Returned /\ out.pResult # NULL /\ out.success = FALSE
    /\ NDev >= 2 /\ out.cDevices = NDev
    /\ OutSlot(NDev - 1) = ZeroSlot

\* --------------------------------------------------------------- C17
\* C17: without injected failure, a device with m > 1 matching interfaces
\* has all m resolved in ordinal order, its slot holds the path of interface
\* m-1, and the array has one slot per device.
C17_LastInterfaceSurvives ==
    (Returned /\ SessionOpened /\ events = {} /\ out.pResult # NULL) =>
        /\ Len(out.slots) = NDev
        /\ \A i \in 0..(NDev - 1) :
             devs[i + 1] > 1 =>
                /\ \A j \in 0..(devs[i + 1] - 1) : <<i, j>> \in dupOk
                /\ OutSlot(i).wszInterfacePath # NULL
                /\ strings[OutSlot(i).wszInterfacePath] = <<i, devs[i + 1] - 1>>
        /\ \A a, b \in 1..Len(strings) :
             (a < b /\ strings[a][1] = strings[b][1]) => strings[a][2] < strings[b][2]

\* A device with two interfaces next to a device with one: two slots, three
\* strings.
C17_Witness ==
    /\ Returned /\ events = {} /\ out.success = TRUE
    /\ NDev = 2 /\ devs[1] = 2 /\ devs[2] = 1
    /\ Len(strings) = 3
    /\ strings[OutSlot(0).wszInterfacePath] = <<0, 1>>

\* --------------------------------------------------------------- C18
\* C18 (as claimed): at return the slot of a device with zero matching
\* interfaces is in its zero-initialised state: null path and zero GUID.
C18_EmptyDeviceSlotIsZero ==
    (Returned /\ out.pResult # NULL) =>
        \A i \in 0..(NDev - 1) : devs[i + 1] = 0 => OutSlot(i) = ZeroSlot

\* C18 (amended): at return the slot of a device with zero matching
\* interfaces has a null path; its class identifier is the requested one
\* whenever the fill pass reached the device, and the zero GUID only when an
\* error on an earlier device ended the fill pass before it.
C18_EmptyDeviceSlotHoldsRequestedClass ==
    (Returned /\ out.pResult # NULL) =>
        \A i \in 0..(NDev - 1) :
            devs[i + 1] = 0 =>
                /\ OutSlot(i).wszInterfacePath = NULL
                /\ OutSlot(i).guidInterface =
                     IF \E e \in events : e[2] >= 0 /\ e[2] < i
                     THEN GUID_NULL ELSE guidInterfaceClass

\* A device without interfaces was reached and carries the requested class;
\* another one behind a failed device stayed zero.
C18_Witness ==
    /\ Returned /\ out.pResult # NULL /\ NDev = 3
    /\ devs[1] = 0 /\ devs[3] = 0 /\ devs[2] >= 1
    /\ OutSlot(0) = [guidInterface |-> guidInterfaceClass, wszInterfacePath |-> NULL]
    /\ OutSlot(2) = ZeroSlot

\* --------------------------------------------------------------- C11
SecondCallReturned == callNo = 2 /\ Returned /\ prev.taken

\* C11 (as claimed): two consecutive calls with the same class identifier,
\* the same unchanged set of devices and interfaces and no injected failure
\* return the same success flag, the same count and arrays with the same
\* class identifier and the same path string in each slot.
C11_SecondCallReturnsSameSlots ==
    SecondCallReturned =>
        /\ out.success = prev.success
        /\ out.cDevices = prev.cDevices
        /\ OutContent = prev.content

\* C11 (amended): the two calls return the same success flag and the same
\* count, and slot i of the second array has the content of the first
\* array's slot of the device the second session enumerates at ordinal i:
\* identical slot by slot when both sessions enumerate in the same order,
\* the same entries permuted otherwise.
C11_SecondCallReturnsSameEntries ==
    SecondCallReturned =>
        /\ out.success = prev.success
        /\ out.cDevices = prev.cDevices
        /\ Len(OutContent) = Len(prev.content)
        /\ \A i \in 1..Len(OutContent) : OutContent[i] = prev.content[order[i]]
        /\ (order = Identity(NDev) => OutContent = prev.content)

\* The second session enumerated two resolved devices in the other order.
C11_Witness ==
    /\ SecondCallReturned /\ out.success = TRUE /\ prev.success = TRUE
    /\ NDev >= 2 /\ out.cDevices = NDev
    /\ order # Identity(NDev)
    /\ OutContent # prev.content
    /\ OutContent[1] = prev.content[order[1]]
    /\ OutContent[1].path # <<>>

====
